---- MODULE Spec2Model ----
(***************************************************************************)
(* A model of scripts/calculate_summary_stats.py: the two analyzers        *)
(* (process_single_file, process_aggregated_files), the statistics they    *)
(* compute, and the driver main().  Text is modelled as TLA+ strings; a    *)
(* file is the sequence of its lines; None is the empty tuple and any      *)
(* other value v is the one-element tuple <<v>>.                           *)
(***************************************************************************)
EXTENDS Integers, Sequences, FiniteSets, TLC

(***************************************************************************)
(* Bounds of the model.                                                    *)
(***************************************************************************)
MaxRows == 3
MaxFiles == 2
MaxDirs == 1
MaxDirFiles == 2

(***************************************************************************)
(* Python values.                                                          *)
(***************************************************************************)
None == <<>>
Some(v) == <<v>>
IsNone(o) == o = <<>>
Val(o) == o[1]

(***************************************************************************)
(* str operations used by the script.                                      *)
(***************************************************************************)
Char(s, i) == SubSeq(s, i, i)

\* s.startswith(p) (what the glob pattern "sequencing_summary*" tests)
StartsWith(s, p) == Len(p) <= Len(s) /\ SubSeq(s, 1, Len(p)) = p

\* s.endswith(p)
EndsWith(s, p) == Len(p) <= Len(s) /\ SubSeq(s, Len(s) - Len(p) + 1, Len(s)) = p

\* p in s
Contains(s, p) == \E i \in 1..(Len(s) - Len(p) + 1) : SubSeq(s, i, i + Len(p) - 1) = p

\* s.find(c) for a one-character c, 1-based; 0 when absent
Find(s, c) ==
    IF \E i \in 1..Len(s) : Char(s, i) = c
    THEN CHOOSE i \in 1..Len(s) : Char(s, i) = c /\ \A j \in 1..(i - 1) : Char(s, j) # c
    ELSE 0

\* s.split(sep) for a one-character sep
RECURSIVE Split(_, _)
Split(s, sep) ==
    LET i == Find(s, sep)
    IN  IF i = 0 THEN <<s>>
        ELSE <<SubSeq(s, 1, i - 1)>> \o Split(SubSeq(s, i + 1, Len(s)), sep)

\* s.strip().split(): the fields between runs of blanks
SplitWS(s) == SelectSeq(Split(s, " "), LAMBDA t : t # "")

\* sep.join(parts)
RECURSIVE Join(_, _)
Join(parts, sep) ==
    IF Len(parts) = 0 THEN ""
    ELSE IF Len(parts) = 1 THEN parts[1]
    ELSE parts[1] \o sep \o Join(Tail(parts), sep)

\* list.index(x), 1-based; 0 stands for ValueError
Index(list, x) ==
    IF \E i \in 1..Len(list) : list[i] = x
    THEN CHOOSE i \in 1..Len(list) : list[i] = x /\ \A j \in 1..(i - 1) : list[j] # x
    ELSE 0

Digits == "0123456789"
IsDigit(c) == Find(Digits, c) # 0
DigitVal(c) == Find(Digits, c) - 1

\* the literal without its sign
Unsigned(s) == IF Len(s) > 0 /\ Char(s, 1) \in {"+", "-"} THEN Tail(s) ELSE s

\* int(s) does not raise ValueError: an optional sign, then digits, single
\* underscores allowed between digits
IsIntLiteral(s) ==
    LET b == Unsigned(s)
    IN  /\ Len(b) > 0
        /\ \A i \in 1..Len(b) :
              \/ IsDigit(Char(b, i))
              \/ /\ Char(b, i) = "_"
                 /\ i > 1 /\ i < Len(b)
                 /\ IsDigit(Char(b, i - 1)) /\ IsDigit(Char(b, i + 1))

RECURSIVE DigitsValue(_, _)
DigitsValue(b, acc) ==
    IF Len(b) = 0 THEN acc
    ELSE IF Head(b) = "_" THEN DigitsValue(Tail(b), acc)
    ELSE DigitsValue(Tail(b), 10 * acc + DigitVal(Head(b)))

\* int(s), for s with IsIntLiteral(s)
ParseInt(s) ==
    IF Char(s, 1) = "-" THEN 0 - DigitsValue(Unsigned(s), 0) ELSE DigitsValue(Unsigned(s), 0)

\* str(n) for an int n
RECURSIVE NatStr(_)
NatStr(n) == IF n < 10 THEN Char(Digits, n + 1) ELSE NatStr(n \div 10) \o Char(Digits, (n % 10) + 1)
IntStr(n) == IF n < 0 THEN "-" \o NatStr(0 - n) ELSE NatStr(n)

\* the characters of the model's texts in code-point order
CodePoints == " +,-./0123456789;ABCDEFGHIJKLMNOPQRSTUVWXYZ_abcdefghijklmnopqrstuvwxyz"
Ord(c) == Find(CodePoints, c)

\* a < b for str
RECURSIVE StrLess(_, _)
StrLess(a, b) ==
    IF Len(b) = 0 THEN FALSE
    ELSE IF Len(a) = 0 THEN TRUE
    ELSE IF Head(a) = Head(b) THEN StrLess(Tail(a), Tail(b))
    ELSE Ord(Head(a)) < Ord(Head(b))

\* sorted(S) for a set of str
RECURSIVE SortedStrs(_)
SortedStrs(S) ==
    IF S = {} THEN <<>>
    ELSE LET m == CHOOSE x \in S : \A y \in S \ {x} : StrLess(x, y)
         IN  <<m>> \o SortedStrs(S \ {m})

\* list.sort(reverse=True) for a list of int
RECURSIVE InsertDesc(_, _)
InsertDesc(x, s) ==
    IF Len(s) = 0 THEN <<x>>
    ELSE IF x >= Head(s) THEN <<x>> \o s
    ELSE <<Head(s)>> \o InsertDesc(x, Tail(s))

RECURSIVE SortDesc(_)
SortDesc(s) == IF Len(s) = 0 THEN <<>> ELSE InsertDesc(Head(s), SortDesc(Tail(s)))

RECURSIVE SumSeq(_)
SumSeq(s) == IF Len(s) = 0 THEN 0 ELSE Head(s) + SumSeq(Tail(s))

\* round(num / den, 2) in hundredths, den > 0: the nearest hundredth, a tie
\* going to the even one.  The quotient is exact here; the float quotient of
\* the code can fall on the other side of a tie, and the inputs below give no
\* quotient that is a tie.
Round2(num, den) ==
    LET n == 100 * num
        q == n \div den
        r == n % den
    IN  IF 2 * r < den THEN q
        ELSE IF 2 * r > den THEN q + 1
        ELSE IF q % 2 = 0 THEN q ELSE q + 1

\* str(x) for a float x of h hundredths (x = h / 100)
FloatStr(h) ==
    LET a == IF h < 0 THEN 0 - h ELSE h
        frac == a % 100
        fs == IF frac % 10 = 0 THEN NatStr(frac \div 10)
              ELSE NatStr(frac \div 10) \o NatStr(frac % 10)
    IN  (IF h < 0 THEN "-" ELSE "") \o NatStr(a \div 100) \o "." \o fs

(***************************************************************************)
(* The statistics both analyzers compute from the pool of read lengths.    *)
(* Floats rounded to two decimals are kept as integer hundredths.          *)
(***************************************************************************)
Giga == 1000000000

\* the walk over the descending lengths: the first x at which the running
\* sum reaches target = total_bases / 2.0, else the initial n50_val = 0
RECURSIVE N50Walk(_, _, _)
N50Walk(lengths, cumulative, total_bases) ==
    IF Len(lengths) = 0 THEN 0
    ELSE IF 2 * (cumulative + Head(lengths)) >= total_bases THEN Head(lengths)
    ELSE N50Walk(Tail(lengths), cumulative + Head(lengths), total_bases)

\* a slip: the walk compares the running sum with total_bases, not with its half
N50ValWholeTotal(sorted_lengths, total_bases) == N50Walk(sorted_lengths, 0, 2 * total_bases)

N50Val(sorted_lengths, total_bases) == N50Walk(sorted_lengths, 0, total_bases)

\* sum(i for i in read_lengths if i >= t)
SumAtLeast(lengths, t) == SumSeq(SelectSeq(lengths, LAMBDA i : i >= t))

\* round(sum(i for i in read_lengths if i >= t) / actual_genome_size, 2)
BucketCov(lengths, t, genome) == Round2(SumAtLeast(lengths, t), genome)

\* len([i for i in read_lengths if i >= 1000000])
Whales(lengths) == Len(SelectSeq(lengths, LAMBDA i : i >= 1000000))

\* the returned dictionary
StatsRecord(file, flowcell, lengths, total_bases, genome) ==
    LET sorted == SortDesc(lengths)
    IN  [ File        |-> file,
          flowcell_id |-> flowcell,
          read_N50    |-> N50Val(sorted, total_bases),
          Gb          |-> Round2(total_bases, Giga),
          coverage    |-> Round2(total_bases, genome),
          kb100       |-> BucketCov(sorted, 100000, genome),
          kb200       |-> BucketCov(sorted, 200000, genome),
          kb300       |-> BucketCov(sorted, 300000, genome),
          kb400       |-> BucketCov(sorted, 400000, genome),
          kb500       |-> BucketCov(sorted, 500000, genome),
          Mb1         |-> BucketCov(sorted, 1000000, genome),
          whales      |-> Whales(sorted) ]

(***************************************************************************)
(* State.                                                                  *)
(*   the inputs of a run:                                                  *)
(*     fs       the readable files: path -> the lines of the file          *)
(*     tree     the directories: path -> the names of the files beneath it *)
(*     matches  what glob.glob(options.directory) returns                  *)
(*     options, args   the parsed command line                             *)
(*   the frame of main():                                                  *)
(*     mpc, actual_genome_size, dirs, files, stdout, stderr, exit_status   *)
(*   the frame of the analyzer being run (one at a time: the program is    *)
(*   synchronous), with the locals of process_single_file and              *)
(*   process_aggregated_files under their names:                           *)
(*     apc, inFile_list, file_no (how many files of inFile_list the loop   *)
(*     has taken), inFile, f, pos (lines of f read so far), header,        *)
(*     length_index, filename_index (0-based, as in the code),             *)
(*     read_lengths, bases, flowcell_id, flowcell_ids, first_data_line,    *)
(*     result                                                              *)
(*   handles   the paths of the file objects opened and not yet closed     *)
(*   invoked   the analyzer calls main() has made: the function and the    *)
(*             path(s) it was given                                        *)
(*   plan, results   the calls a test of the analyzers makes, and what     *)
(*                   each gave                                             *)
(***************************************************************************)
VARIABLES fs, tree, matches, options, args,
          mpc, actual_genome_size, dirs, files, stdout, stderr, exit_status,
          apc, inFile_list, file_no, inFile, f, pos, header, length_index, filename_index,
          read_lengths, bases, flowcell_id, flowcell_ids, first_data_line, result,
          handles, invoked, plan, results

inputVars == <<fs, tree, matches, options, args>>
mainVars  == <<mpc, actual_genome_size, dirs, files, stdout, exit_status>>
fileVars  == <<f, pos, header, length_index, filename_index>>
poolVars  == <<read_lengths, bases, flowcell_id, flowcell_ids, first_data_line>>
callVars  == <<inFile_list, file_no, inFile>>
testVars  == <<plan, results>>
vars == <<fs, tree, matches, options, args,
          mpc, actual_genome_size, dirs, files, stdout, stderr, exit_status,
          apc, inFile_list, file_no, inFile, f, pos, header, length_index, filename_index,
          read_lengths, bases, flowcell_id, flowcell_ids, first_data_line, result,
          handles, invoked, plan, results>>

\* the analyzer's frame before any call
FrameIdle ==
    /\ apc = "idle"
    /\ inFile_list = <<>> /\ file_no = 0 /\ inFile = "" /\ f = None /\ pos = 0
    /\ header = <<>> /\ length_index = 0 /\ filename_index = None
    /\ read_lengths = <<>> /\ bases = 0
    /\ flowcell_id = None /\ flowcell_ids = {} /\ first_data_line = TRUE
    /\ result = None

\* a call of process_single_file(path, ...): the locals at function entry
EnterSingle(path) ==
    /\ apc' = "s_open"
    /\ inFile_list' = <<>> /\ file_no' = 0 /\ inFile' = path /\ f' = None /\ pos' = 0
    /\ header' = <<>> /\ length_index' = 0 /\ filename_index' = None
    /\ read_lengths' = <<>> /\ bases' = 0
    /\ flowcell_id' = None /\ flowcell_ids' = {} /\ first_data_line' = TRUE
    /\ result' = None

\* a call of process_aggregated_files(list, ...): the locals at function entry
EnterAggregated(list) ==
    /\ apc' = "a_next"
    /\ inFile_list' = list /\ file_no' = 0 /\ inFile' = "" /\ f' = None /\ pos' = 0
    /\ header' = <<>> /\ length_index' = 0 /\ filename_index' = None
    /\ read_lengths' = <<>> /\ bases' = 0
    /\ flowcell_id' = None /\ flowcell_ids' = {} /\ first_data_line' = TRUE
    /\ result' = None

(***************************************************************************)
(* The table reader, as both analyzers write it.                           *)
(***************************************************************************)
\* f.readline().strip().split() on a freshly opened file
HeaderOf(lines) == SplitWS(IF Len(lines) = 0 THEN "" ELSE lines[1])

\* header.index("sequence_length_template"); -1 stands for ValueError
LengthIndex(hdr) == Index(hdr, "sequence_length_template") - 1

\* the first of "filename", "filename_pod5" the header has, else None
FilenameIndex(hdr) ==
    IF Index(hdr, "filename") # 0 THEN Some(Index(hdr, "filename") - 1)
    ELSE IF Index(hdr, "filename_pod5") # 0 THEN Some(Index(hdr, "filename_pod5") - 1)
    ELSE None

\* the two `continue`s at the top of the loop body: a repeated header line,
\* or too few fields to reach the read-length column
SkipsLine(line, lidx) ==
    \/ Contains(line, "filename") /\ Contains(line, "read_id")
    \/ Len(SplitWS(line)) <= lidx

\* pod_filename.split("_")[0] of the row's filename field
PodPrefix(parts, fidx) == Split(parts[fidx + 1], "_")[1]

\* int(parts[length_index]) does not raise
LengthParses(parts, lidx) == IsIntLiteral(parts[lidx + 1])
RowLength(parts, lidx) == ParseInt(parts[lidx + 1])

\* gzip.open(inFile, 'rt') for a path ending in .gz, else open(inFile, 'r')
OpenMode(path) == IF EndsWith(path, ".gz") THEN "gzip" ELSE "text"
Handle(path) == [path |-> path, mode |-> OpenMode(path)]

\* f.close(): the file object leaves the open ones
Closed(hs, h) ==
    IF \E i \in 1..Len(hs) : hs[i] = h
    THEN LET i == CHOOSE j \in 1..Len(hs) : hs[j] = h /\ \A m \in (j + 1)..Len(hs) : hs[m] # h
         IN  SubSeq(hs, 1, i - 1) \o SubSeq(hs, i + 1, Len(hs))
    ELSE hs

\* the lines of the open file, and the one the loop `for line in f` is at
Lines == fs[Val(f).path]
CurLine == Lines[pos + 1]
AtEOF == pos >= Len(Lines)

(***************************************************************************)
(* process_single_file                                                     *)
(***************************************************************************)
\* flowcell_id after the `if flowcell_id is None and ...` of the loop body
S_Flowcell(fid, fidx, parts) ==
    IF IsNone(fid) /\ ~IsNone(fidx) /\ Len(parts) > Val(fidx)
    THEN Some(PodPrefix(parts, Val(fidx)))
    ELSE fid

\* flowcell_id or ""
OrEmpty(fid) == IF IsNone(fid) THEN "" ELSE Val(fid)

\* a slip: no emptiness check before the statistics
S_ReturnUnchecked(file, fid, lengths, total_bases, genome) ==
    Some(StatsRecord(file, OrEmpty(fid), lengths, total_bases, genome))

\* what the function returns once the file is read: None for an empty pool
S_Return(file, fid, lengths, total_bases, genome) ==
    IF Len(lengths) = 0 THEN None
    ELSE Some(StatsRecord(file, OrEmpty(fid), lengths, total_bases, genome))

\* the try block: the open raised
S_OpenFails ==
    /\ apc = "s_open"
    /\ inFile \notin DOMAIN fs
    /\ stderr' = Append(stderr, "Error opening file " \o inFile)
    /\ result' = None
    /\ apc' = "returned"
    /\ UNCHANGED <<inputVars, mainVars, callVars, fileVars, poolVars, handles, invoked, testVars>>

\* the try block: the file is open
S_Open ==
    /\ apc = "s_open"
    /\ inFile \in DOMAIN fs
    /\ f' = Some(Handle(inFile))
    /\ handles' = Append(handles, Handle(inFile))
    /\ apc' = "s_header"
    /\ UNCHANGED <<inputVars, mainVars, callVars, pos, header, length_index, filename_index,
                   poolVars, result, stderr, invoked, testVars>>

\* the header line and the two column lookups
S_Header ==
    /\ apc = "s_header"
    /\ LET hdr == HeaderOf(Lines)
       IN  /\ header' = hdr
           /\ pos' = IF Len(Lines) = 0 THEN 0 ELSE 1
           /\ IF LengthIndex(hdr) < 0
              THEN /\ stderr' = Append(stderr,
                         "Error: 'sequence_length_template' not found in header of " \o inFile)
                   /\ handles' = Closed(handles, Val(f))
                   /\ result' = None
                   /\ apc' = "returned"
                   /\ UNCHANGED <<length_index, filename_index>>
              ELSE /\ length_index' = LengthIndex(hdr)
                   /\ filename_index' = FilenameIndex(hdr)
                   /\ stderr' = IF IsNone(FilenameIndex(hdr))
                                THEN Append(stderr,
                                       "Warning: Neither 'filename' nor 'filename_pod5' found in header of "
                                       \o inFile)
                                ELSE stderr
                   /\ apc' = "s_loop"
                   /\ UNCHANGED <<handles, result>>
    /\ UNCHANGED <<inputVars, mainVars, callVars, f, poolVars, invoked, testVars>>

\* a slip: a length that does not parse ends the loop (`break`, not `continue`)
S_LineBreaks ==
    /\ apc = "s_loop"
    /\ ~AtEOF
    /\ LET line == CurLine
           parts == SplitWS(line)
       IN  IF SkipsLine(line, length_index)
           THEN /\ pos' = pos + 1
                /\ UNCHANGED <<flowcell_id, read_lengths, bases>>
           ELSE /\ flowcell_id' = S_Flowcell(flowcell_id, filename_index, parts)
                /\ IF LengthParses(parts, length_index)
                   THEN /\ pos' = pos + 1
                        /\ read_lengths' = Append(read_lengths, RowLength(parts, length_index))
                        /\ bases' = bases + RowLength(parts, length_index)
                   ELSE /\ pos' = Len(Lines)
                        /\ UNCHANGED <<read_lengths, bases>>
    /\ UNCHANGED <<inputVars, mainVars, callVars, f, header, length_index, filename_index,
                   flowcell_ids, first_data_line, result, apc, stderr, handles, invoked, testVars>>

\* one pass of the loop body
S_Line ==
    /\ apc = "s_loop"
    /\ ~AtEOF
    /\ pos' = pos + 1
    /\ LET line == CurLine
           parts == SplitWS(line)
       IN  IF SkipsLine(line, length_index)
           THEN UNCHANGED <<flowcell_id, read_lengths, bases>>
           ELSE /\ flowcell_id' = S_Flowcell(flowcell_id, filename_index, parts)
                /\ IF LengthParses(parts, length_index)
                   THEN /\ read_lengths' = Append(read_lengths, RowLength(parts, length_index))
                        /\ bases' = bases + RowLength(parts, length_index)
                   ELSE UNCHANGED <<read_lengths, bases>>
    /\ UNCHANGED <<inputVars, mainVars, callVars, f, header, length_index, filename_index,
                   flowcell_ids, first_data_line, result, apc, stderr, handles, invoked, testVars>>

\* after the loop: f.close(), the emptiness check, the statistics, the return
S_Finish ==
    /\ apc = "s_loop"
    /\ AtEOF
    /\ handles' = Closed(handles, Val(f))
    /\ read_lengths' = SortDesc(read_lengths)
    /\ result' = S_Return(inFile, flowcell_id, read_lengths, bases, Val(actual_genome_size))
    /\ apc' = "returned"
    /\ UNCHANGED <<inputVars, mainVars, callVars, fileVars, bases, flowcell_id, flowcell_ids,
                   first_data_line, stderr, invoked, testVars>>

(***************************************************************************)
(* process_aggregated_files                                                *)
(***************************************************************************)
\* a slip: the prefixes are joined in descending order
RECURSIVE Reversed(_)
Reversed(q) == IF Len(q) = 0 THEN <<>> ELSE Reversed(Tail(q)) \o <<Head(q)>>
FlowcellStrDescending(ids) == IF ids = {} THEN "" ELSE Join(Reversed(SortedStrs(ids)), ";")

\* ";".join(sorted(flowcell_ids)) if flowcell_ids else ""
FlowcellStr(ids) == IF ids = {} THEN "" ELSE Join(SortedStrs(ids), ";")

\* a slip: the first_data_line flag is not consulted
A_CapturesEveryRow(first, fidx, parts) == ~IsNone(fidx) /\ Len(parts) > Val(fidx)

\* the row captures the prefix: `if first_data_line and filename_index is not
\* None and len(parts) > filename_index`
A_Captures(first, fidx, parts) == first /\ ~IsNone(fidx) /\ Len(parts) > Val(fidx)

\* what the function returns once every file is read: None for an empty pool
A_Return(list, ids, lengths, total_bases, genome) ==
    IF Len(lengths) = 0 THEN None
    ELSE Some(StatsRecord(Join(list, ","), FlowcellStr(ids), lengths, total_bases, genome))

\* a slip: `return None` as in process_single_file, where `continue` is meant
A_GiveUp == "returned"

\* where the loop over inFile_list goes on after a file it cannot use: the
\* `continue` of the except clauses
A_Continue == "a_next"

\* the next file of the list; the open raised
A_OpenFails ==
    /\ apc = "a_next"
    /\ file_no < Len(inFile_list)
    /\ inFile_list[file_no + 1] \notin DOMAIN fs
    /\ file_no' = file_no + 1
    /\ inFile' = inFile_list[file_no + 1]
    /\ stderr' = Append(stderr, "Error opening file " \o inFile_list[file_no + 1])
    /\ apc' = A_Continue
    /\ UNCHANGED <<inputVars, mainVars, inFile_list, fileVars, poolVars, result, handles,
                   invoked, testVars>>

\* the next file of the list; it is open
A_Open ==
    /\ apc = "a_next"
    /\ file_no < Len(inFile_list)
    /\ inFile_list[file_no + 1] \in DOMAIN fs
    /\ file_no' = file_no + 1
    /\ inFile' = inFile_list[file_no + 1]
    /\ f' = Some(Handle(inFile_list[file_no + 1]))
    /\ pos' = 0
    /\ handles' = Append(handles, Handle(inFile_list[file_no + 1]))
    /\ apc' = "a_header"
    /\ UNCHANGED <<inputVars, mainVars, inFile_list, header, length_index, filename_index,
                   poolVars, result, stderr, invoked, testVars>>

\* the header line and the two column lookups
A_Header ==
    /\ apc = "a_header"
    /\ LET hdr == HeaderOf(Lines)
       IN  /\ header' = hdr
           /\ pos' = IF Len(Lines) = 0 THEN 0 ELSE 1
           /\ IF LengthIndex(hdr) < 0
              THEN /\ stderr' = Append(stderr,
                         "Error: 'sequence_length_template' not found in header of " \o inFile)
                   /\ handles' = Closed(handles, Val(f))
                   /\ apc' = A_Continue
                   /\ UNCHANGED <<length_index, filename_index, first_data_line>>
              ELSE /\ length_index' = LengthIndex(hdr)
                   /\ filename_index' = FilenameIndex(hdr)
                   /\ first_data_line' = TRUE
                   /\ apc' = "a_loop"
                   /\ UNCHANGED <<handles, stderr>>
    /\ UNCHANGED <<inputVars, mainVars, callVars, f, read_lengths, bases, flowcell_id,
                   flowcell_ids, result, invoked, testVars>>

\* one pass of the inner loop body
A_Line ==
    /\ apc = "a_loop"
    /\ ~AtEOF
    /\ pos' = pos + 1
    /\ LET line == CurLine
           parts == SplitWS(line)
       IN  IF SkipsLine(line, length_index)
           THEN UNCHANGED <<flowcell_ids, first_data_line, read_lengths, bases>>
           ELSE /\ IF A_Captures(first_data_line, filename_index, parts)
                   THEN /\ flowcell_ids' = flowcell_ids \cup {PodPrefix(parts, Val(filename_index))}
                        /\ first_data_line' = FALSE
                   ELSE UNCHANGED <<flowcell_ids, first_data_line>>
                /\ IF LengthParses(parts, length_index)
                   THEN /\ read_lengths' = Append(read_lengths, RowLength(parts, length_index))
                        /\ bases' = bases + RowLength(parts, length_index)
                   ELSE UNCHANGED <<read_lengths, bases>>
    /\ UNCHANGED <<inputVars, mainVars, callVars, f, header, length_index, filename_index,
                   flowcell_id, result, apc, stderr, handles, invoked, testVars>>

\* the end of a file: f.close(), on to the next file
A_Close ==
    /\ apc = "a_loop"
    /\ AtEOF
    /\ handles' = Closed(handles, Val(f))
    /\ apc' = "a_next"
    /\ UNCHANGED <<inputVars, mainVars, callVars, fileVars, poolVars, result, stderr,
                   invoked, testVars>>

\* after the loop over the files: the emptiness check, the statistics, the return
A_Finish ==
    /\ apc = "a_next"
    /\ file_no = Len(inFile_list)
    /\ read_lengths' = SortDesc(read_lengths)
    /\ result' = A_Return(inFile_list, flowcell_ids, read_lengths, bases, Val(actual_genome_size))
    /\ apc' = "returned"
    /\ UNCHANGED <<inputVars, mainVars, callVars, fileVars, bases, flowcell_id, flowcell_ids,
                   first_data_line, stderr, handles, invoked, testVars>>

(***************************************************************************)
(* Reading a line can raise (a truncated or non-gzip .gz file, undecodable *)
(* bytes, an I/O error).  Neither analyzer catches it: the exception       *)
(* leaves the function with f still open.                                  *)
(***************************************************************************)
ReadRaises ==
    /\ apc \in {"s_header", "s_loop", "a_header", "a_loop"}
    /\ apc' = "raised"
    /\ UNCHANGED <<inputVars, mainVars, callVars, fileVars, poolVars, result, stderr,
                   handles, invoked, testVars>>

Analyzer ==
    \/ S_OpenFails \/ S_Open \/ S_Header \/ S_Line \/ S_Finish
    \/ A_OpenFails \/ A_Open \/ A_Header \/ A_Line \/ A_Close \/ A_Finish
    \/ ReadRaises

(***************************************************************************)
(* Inputs: summary files.                                                  *)
(***************************************************************************)
SeqsUpTo(S, n) == UNION {[1..k -> S] : k \in 0..n}

\* header lines: read length first, then filename; filename_pod5 first, read
\* length last; no filename column; no read-length column
HdrLenFirst  == "sequence_length_template filename read_id"
HdrPod5      == "filename_pod5 read_id sequence_length_template"
HdrNoName    == "sequence_length_template read_id"
HdrNoLength  == "filename read_id"
DataHeaders  == {HdrLenFirst, HdrPod5, HdrNoName}

\* data lines.  What a line means depends on the header above it: under
\* HdrLenFirst, LineShort reaches the read-length column but not the filename
\* column, LinePod5 has an unparseable length, LineHdr is a repeated header
LineA     == "200000 FCA_1.pod5 r1"
LineWhale == "1000000 FCB_2.pod5 r2"
LineZero  == "0 _x r3"
LineShort == "300000"
LineHdr   == "sequence_length_template filename read_id"
LinePod5  == "FCB_2.pod5 r5 100000"
LineNeg   == "-5 FCA_1.pod5 r6"
DataLines == {LineA, LineWhale, LineZero, LineShort, LineHdr, LinePod5, LineNeg}

\* the contents a single file is drawn from: every header over every run of
\* at most MaxRows data lines, a file without the read-length column, and the
\* empty file
FileSet ==
    {<<h>> \o rows : h \in DataHeaders, rows \in SeqsUpTo(DataLines, MaxRows)}
    \cup {<<>>, <<HdrNoLength>>, <<HdrNoLength, LineA>>}

\* the contents the files of a longer list are drawn from
ListFileSet ==
    { <<HdrNoLength, LineA>>,
      <<HdrLenFirst>>,
      <<HdrLenFirst, LineA>>,
      <<HdrLenFirst, LineWhale, LineA>>,
      <<HdrLenFirst, LineZero>>,
      <<HdrNoName, LineShort>>,
      <<HdrPod5, LinePod5>> }

\* the paths of the files of a list, in order
TestPaths == <<"runA/f1.txt", "runB/f2.txt.gz", "runC/f3.txt", "runD/f4.txt.gz">>

\* genome sizes in bases (--size times 1e9)
GenomeSizes == {1000000}

\* files a list keeps once those that fail to open or lack the read-length
\* column are taken out
Usable(list) ==
    SelectSeq(list, LAMBDA p : p \in DOMAIN fs /\ LengthIndex(HeaderOf(fs[p])) >= 0)

(***************************************************************************)
(* A test of the analyzers: on a list of files L it calls                  *)
(*   process_single_file(L[0]), process_aggregated_files(L) and            *)
(*   process_aggregated_files(L without its unusable files)                *)
(* and keeps what each call gave.  It stops at a call that raised.         *)
(***************************************************************************)
Outcome(raised, value) == [raised |-> raised, value |-> value]

InitCall ==
    /\ \E n \in 1..MaxFiles :
       \E present \in SUBSET (1..n) :
       \E content \in [present -> IF n = 1 THEN FileSet ELSE ListFileSet] :
          /\ fs = [p \in {TestPaths[i] : i \in present} |->
                     content[CHOOSE i \in present : TestPaths[i] = p]]
          /\ plan = << [fn |-> "single", files |-> <<TestPaths[1]>>],
                       [fn |-> "aggregated", files |-> SubSeq(TestPaths, 1, n)],
                       [fn |-> "aggregated",
                        files |-> SelectSeq(SubSeq(TestPaths, 1, n),
                                     LAMBDA p : \E i \in present :
                                        /\ TestPaths[i] = p
                                        /\ LengthIndex(HeaderOf(content[i])) >= 0)] >>
    /\ actual_genome_size \in {Some(g) : g \in GenomeSizes}
    /\ tree = <<>> /\ matches = <<>> /\ args = <<>>
    /\ options = [genome_size |-> None, directory |-> None, shortname |-> "yes",
                  append_str |-> "fast"]
    /\ mpc = "test" /\ dirs = <<>> /\ files = <<>>
    /\ stdout = <<>> /\ stderr = <<>> /\ exit_status = None
    /\ FrameIdle
    /\ handles = <<>> /\ invoked = <<>> /\ results = <<>>

\* the frame is dropped
LeaveFrame ==
    /\ apc' = "idle"
    /\ inFile_list' = <<>> /\ file_no' = 0 /\ inFile' = "" /\ f' = None /\ pos' = 0
    /\ header' = <<>> /\ length_index' = 0 /\ filename_index' = None
    /\ read_lengths' = <<>> /\ bases' = 0
    /\ flowcell_id' = None /\ flowcell_ids' = {} /\ first_data_line' = TRUE
    /\ result' = None

NoneRaised == \A i \in 1..Len(results) : ~results[i].raised

T_CallSingle ==
    /\ mpc = "test" /\ apc = "idle"
    /\ Len(results) < Len(plan) /\ NoneRaised
    /\ plan[Len(results) + 1].fn = "single"
    /\ EnterSingle(plan[Len(results) + 1].files[1])
    /\ UNCHANGED <<inputVars, mainVars, stderr, handles, invoked, testVars>>

T_CallAggregated ==
    /\ mpc = "test" /\ apc = "idle"
    /\ Len(results) < Len(plan) /\ NoneRaised
    /\ plan[Len(results) + 1].fn = "aggregated"
    /\ EnterAggregated(plan[Len(results) + 1].files)
    /\ UNCHANGED <<inputVars, mainVars, stderr, handles, invoked, testVars>>

T_Collect ==
    /\ mpc = "test" /\ apc \in {"returned", "raised"}
    /\ results' = Append(results, Outcome(apc = "raised", result))
    /\ LeaveFrame
    /\ UNCHANGED <<inputVars, mainVars, stderr, handles, invoked, plan>>

NextCall == T_CallSingle \/ T_CallAggregated \/ T_Collect \/ Analyzer

SpecCall == InitCall /\ [][NextCall]_vars

(***************************************************************************)
(* transform_file_field and the row main() writes                          *)
(***************************************************************************)
\* parts[1] if len(parts) >= 2 else item, for parts = item.split("/")
SecondField(item) ==
    LET parts == Split(item, "/") IN IF Len(parts) >= 2 THEN parts[2] ELSE item

RECURSIVE MapSecondField(_)
MapSecondField(items) ==
    IF Len(items) = 0 THEN <<>> ELSE <<SecondField(Head(items))>> \o MapSecondField(Tail(items))

transform_file_field(file_field, shortname_option) ==
    IF shortname_option # "yes" THEN file_field
    ELSE IF Contains(file_field, ",") THEN Join(MapSecondField(Split(file_field, ",")), ",")
    ELSE SecondField(file_field)

\* the shortened File field with "_" + append_str, when there is one
FileField(stats, opts) ==
    LET short == transform_file_field(stats.File, opts.shortname)
    IN  IF opts.append_str # "" THEN short \o "_" \o opts.append_str ELSE short

CsvHeader == <<"File", "flowcell_id", "read_N50", "Gb", "coverage", "100kb+", "200kb+",
               "300kb+", "400kb+", "500kb+", "1Mb+", "whales">>

\* [str(stats[col]) for col in header]
Row(stats, opts) ==
    << FileField(stats, opts), stats.flowcell_id, IntStr(stats.read_N50), FloatStr(stats.Gb),
       FloatStr(stats.coverage), FloatStr(stats.kb100), FloatStr(stats.kb200),
       FloatStr(stats.kb300), FloatStr(stats.kb400), FloatStr(stats.kb500),
       FloatStr(stats.Mb1), IntStr(stats.whales) >>

(***************************************************************************)
(* main().  stdout holds what was written to it, a row per write; the exit *)
(* status is None while the process runs.                                  *)
(***************************************************************************)
\* options.genome_size is kept in thousandths of a gigabase, so that
\* options.genome_size * 1e9 is a whole number of bases
GenomeBases(size) == size * 1000000

\* `if options.directory:`
DirectoryGiven == ~IsNone(options.directory) /\ Val(options.directory) # ""

\* glob.glob(os.path.join(d, "**", pattern), recursive=True) for the two
\* patterns, as paths; glob's order is taken to be the sorted one
RECURSIVE PathsUnder(_, _)
PathsUnder(d, names) ==
    IF Len(names) = 0 THEN <<>> ELSE <<d \o "/" \o Head(names)>> \o PathsUnder(d, Tail(names))

SeqSummaryFiles(d) ==
    PathsUnder(d, SelectSeq(SortedStrs(tree[d]), LAMBDA n : StartsWith(n, "sequencing_summary")))

SummaryFiles(d) ==
    PathsUnder(d, SelectSeq(SortedStrs(tree[d]), LAMBDA n : EndsWith(n, "_summary.txt.gz")))

\* files = seq_summary_files + summary_files
FilesOf(d) == SeqSummaryFiles(d) \o SummaryFiles(d)

\* the exit status of each way main() ends
ExitOptionError == 2
ExitHelp == 0
\* a slip: sys.exit(0) where the pattern matches no directory
ExitNoDirsZero == ExitHelp
ExitNoDirs == 1
ExitNormal == 0
ExitUncaught == 1

TotalTime == "Total time for the program"

\* parser.error(): --size was not given
M_NoSize ==
    /\ mpc = "start"
    /\ IsNone(options.genome_size)
    /\ stderr' = Append(stderr, "error: --size option is required")
    /\ exit_status' = Some(ExitOptionError)
    /\ mpc' = "exited"
    /\ UNCHANGED <<inputVars, actual_genome_size, dirs, files, stdout, apc, callVars, fileVars,
                   poolVars, result, handles, invoked, testVars>>

\* directory mode, and the pattern matches nothing
M_NoDirs ==
    /\ mpc = "start"
    /\ ~IsNone(options.genome_size)
    /\ DirectoryGiven
    /\ Len(matches) = 0
    /\ actual_genome_size' = Some(GenomeBases(Val(options.genome_size)))
    /\ stdout' = Append(stdout, CsvHeader)
    /\ stderr' = Append(stderr, "No directories match the pattern: " \o Val(options.directory))
    /\ exit_status' = Some(ExitNoDirs)
    /\ mpc' = "exited"
    /\ UNCHANGED <<inputVars, dirs, files, apc, callVars, fileVars, poolVars, result, handles,
                   invoked, testVars>>

\* directory mode: on to the loop over the matched directories
M_DirMode ==
    /\ mpc = "start"
    /\ ~IsNone(options.genome_size)
    /\ DirectoryGiven
    /\ Len(matches) > 0
    /\ actual_genome_size' = Some(GenomeBases(Val(options.genome_size)))
    /\ stdout' = Append(stdout, CsvHeader)
    /\ dirs' = matches
    /\ mpc' = "dir_loop"
    /\ UNCHANGED <<inputVars, files, stderr, exit_status, apc, callVars, fileVars, poolVars,
                   result, handles, invoked, testVars>>

\* aggregated mode: the call of process_aggregated_files(args, ...)
M_AggMode ==
    /\ mpc = "start"
    /\ ~IsNone(options.genome_size)
    /\ ~DirectoryGiven
    /\ Len(args) > 0
    /\ actual_genome_size' = Some(GenomeBases(Val(options.genome_size)))
    /\ stdout' = Append(stdout, CsvHeader)
    /\ invoked' = Append(invoked, [fn |-> "aggregated", files |-> args])
    /\ EnterAggregated(args)
    /\ mpc' = "agg_call"
    /\ UNCHANGED <<inputVars, dirs, files, stderr, exit_status, handles, testVars>>

\* neither --dir nor files: parser.print_help() (on stdout) and sys.exit(0)
M_Help ==
    /\ mpc = "start"
    /\ ~IsNone(options.genome_size)
    /\ ~DirectoryGiven
    /\ Len(args) = 0
    /\ actual_genome_size' = Some(GenomeBases(Val(options.genome_size)))
    /\ stdout' = stdout \o <<CsvHeader, <<"Usage: python %prog [options] sequencing_summary.txt">> >>
    /\ exit_status' = Some(ExitHelp)
    /\ mpc' = "exited"
    /\ UNCHANGED <<inputVars, dirs, files, stderr, apc, callVars, fileVars, poolVars, result,
                   handles, invoked, testVars>>

\* `for d in dirs`: the next directory and its files, or the end of the loop
M_NextDir ==
    /\ mpc = "dir_loop"
    /\ IF Len(dirs) = 0
       THEN /\ stderr' = Append(stderr, TotalTime)
            /\ exit_status' = Some(ExitNormal)
            /\ mpc' = "exited"
            /\ UNCHANGED <<dirs, files>>
       ELSE LET d == Head(dirs)
            IN  IF d \notin DOMAIN tree
                THEN /\ dirs' = Tail(dirs)
                     /\ UNCHANGED <<files, stderr, exit_status, mpc>>
                ELSE IF Len(FilesOf(d)) = 0
                THEN /\ stderr' = Append(stderr,
                           "Warning: No sequencing summary files found in directory " \o d)
                     /\ dirs' = Tail(dirs)
                     /\ UNCHANGED <<files, exit_status, mpc>>
                ELSE /\ files' = FilesOf(d)
                     /\ mpc' = "file_loop"
                     /\ UNCHANGED <<dirs, stderr, exit_status>>
    /\ UNCHANGED <<inputVars, actual_genome_size, stdout, apc, callVars, fileVars, poolVars,
                   result, handles, invoked, testVars>>

\* `for f in files`: the call of process_single_file(f, ...), or on to the
\* next directory
M_NextFile ==
    /\ mpc = "file_loop"
    /\ IF Len(files) = 0
       THEN /\ dirs' = Tail(dirs)
            /\ mpc' = "dir_loop"
            /\ UNCHANGED <<invoked, apc, callVars, fileVars, poolVars, result>>
       ELSE /\ invoked' = Append(invoked, [fn |-> "single", files |-> <<Head(files)>>])
            /\ EnterSingle(Head(files))
            /\ mpc' = "file_call"
            /\ UNCHANGED dirs
    /\ UNCHANGED <<inputVars, actual_genome_size, files, stdout, stderr, exit_status, handles,
                   testVars>>

\* process_single_file returned: the row, unless stats is None
M_FileDone ==
    /\ mpc = "file_call"
    /\ apc = "returned"
    /\ stdout' = IF IsNone(result) THEN stdout ELSE Append(stdout, Row(Val(result), options))
    /\ files' = Tail(files)
    /\ mpc' = "file_loop"
    /\ LeaveFrame
    /\ UNCHANGED <<inputVars, actual_genome_size, dirs, stderr, exit_status, handles, invoked,
                   testVars>>

\* process_aggregated_files returned: the row, if stats; the end of main()
M_AggDone ==
    /\ mpc = "agg_call"
    /\ apc = "returned"
    /\ stdout' = IF IsNone(result) THEN stdout ELSE Append(stdout, Row(Val(result), options))
    /\ stderr' = Append(stderr, TotalTime)
    /\ exit_status' = Some(ExitNormal)
    /\ mpc' = "exited"
    /\ LeaveFrame
    /\ UNCHANGED <<inputVars, actual_genome_size, dirs, files, handles, invoked, testVars>>

\* an exception left the analyzer: main() does not catch it, the interpreter
\* prints the traceback and exits
M_Uncaught ==
    /\ mpc \in {"file_call", "agg_call"}
    /\ apc = "raised"
    /\ stderr' = Append(stderr, "Traceback (most recent call last)")
    /\ exit_status' = Some(ExitUncaught)
    /\ mpc' = "exited"
    /\ LeaveFrame
    /\ UNCHANGED <<inputVars, actual_genome_size, dirs, files, stdout, handles, invoked,
                   testVars>>

(***************************************************************************)
(* Inputs: command lines and directory trees.                              *)
(***************************************************************************)
\* the paths a --dir pattern matches, in glob's order
DirPaths == <<"runA", "runB", "runC">>

NameSeq   == "sequencing_summary.txt"
NameBoth  == "sequencing_summary.txt.gz"
NameGz    == "run1_summary.txt.gz"
NameOther == "notes.txt"
FileNames == {NameSeq, NameBoth, NameGz, NameOther}

\* what a file of each name holds, the same in every directory; Unreadable
\* marks a file that is listed but cannot be opened
Unreadable == <<"unreadable">>
ContentsOf ==
    { [n \in FileNames |->
          IF n = NameSeq THEN a ELSE IF n = NameBoth THEN b ELSE IF n = NameGz THEN c
          ELSE <<"notes">>] :
      a \in {<<HdrLenFirst, LineA>>, <<HdrNoLength, LineA>>},
      b \in {<<HdrPod5, LineA, LinePod5>>, <<HdrLenFirst, LinePod5, LineHdr>>},
      c \in {<<HdrLenFirst, LineShort, LineWhale>>, Unreadable} }

\* (shortname, append_str): the defaults, and --shortname no --no-append
Cosmetics == {<<"yes", "fast">>, <<"no", "">>}

\* options.genome_size, in thousandths of a gigabase
SizesGiven == {1}

InitFrames ==
    /\ mpc = "start" /\ actual_genome_size = None /\ dirs = <<>> /\ files = <<>>
    /\ stdout = <<>> /\ stderr = <<>> /\ exit_status = None
    /\ FrameIdle
    /\ handles = <<>> /\ invoked = <<>>
    /\ plan = <<>> /\ results = <<>>

\* --dir PATTERN: the pattern matches up to MaxDirs paths, each a directory
\* with up to MaxDirFiles files beneath it or not a directory
InitDir ==
    /\ \E n \in 0..MaxDirs :
       \E isdir \in SUBSET (1..n) :
       \E names \in [isdir -> {S \in SUBSET FileNames : Cardinality(S) <= MaxDirFiles}] :
       \E content \in ContentsOf :
          /\ matches = SubSeq(DirPaths, 1, n)
          /\ tree = [d \in {DirPaths[i] : i \in isdir} |->
                       names[CHOOSE i \in isdir : DirPaths[i] = d]]
          /\ fs = [p \in {DirPaths[i] \o "/" \o nm :
                              i \in isdir, nm \in {x \in FileNames : content[x] # Unreadable}} |->
                     content[CHOOSE nm \in FileNames : \E i \in isdir : p = DirPaths[i] \o "/" \o nm]]
    /\ \E c \in Cosmetics, size \in SizesGiven :
          options = [genome_size |-> Some(size), directory |-> Some("run*"),
                     shortname |-> c[1], append_str |-> c[2]]
    /\ args = <<>>
    /\ InitFrames

\* files on the command line (none, too), with no --dir or an empty one
InitArgs ==
    /\ \E n \in 0..MaxFiles :
       \E present \in SUBSET (1..n) :
       \E content \in [present -> ListFileSet] :
          /\ fs = [p \in {TestPaths[i] : i \in present} |->
                     content[CHOOSE i \in present : TestPaths[i] = p]]
          /\ args = SubSeq(TestPaths, 1, n)
    /\ \E c \in Cosmetics, size \in SizesGiven, dir \in {None, Some("")} :
          options = [genome_size |-> Some(size), directory |-> dir,
                     shortname |-> c[1], append_str |-> c[2]]
    /\ tree = <<>> /\ matches = <<>>
    /\ InitFrames

\* no --size, whatever else is given
InitNoSize ==
    /\ \E dir \in {None, Some("run*")}, n \in 0..1 :
          /\ options = [genome_size |-> None, directory |-> dir,
                        shortname |-> "yes", append_str |-> "fast"]
          /\ args = SubSeq(TestPaths, 1, n)
    /\ fs = <<>> /\ tree = <<>> /\ matches = <<>>
    /\ InitFrames

Init == InitDir \/ InitArgs \/ InitNoSize

Next ==
    \/ M_NoSize \/ M_NoDirs \/ M_DirMode \/ M_AggMode \/ M_Help
    \/ M_NextDir \/ M_NextFile \/ M_FileDone \/ M_AggDone \/ M_Uncaught
    \/ Analyzer

Spec == Init /\ [][Next]_vars

(***************************************************************************)
(* Properties.                                                             *)
(***************************************************************************)
Returned == apc = "returned"
Emitted  == Returned /\ ~IsNone(result)

NonNegative(s) == \A i \in 1..Len(s) : s[i] >= 0
IsDescending(s) == \A i \in 1..(Len(s) - 1) : s[i] >= s[i + 1]
PrefixSum(s, k) == SumSeq(SubSeq(s, 1, k))

\* L is the element of the descending pool at which the running sum first
\* reaches half the total: the sum up to and including it is at least half
\* the total, the sum before it is strictly below
HalfCrossing(pool, L) ==
    /\ IsDescending(pool)
    /\ \E k \in 1..Len(pool) :
          /\ pool[k] = L
          /\ 2 * PrefixSum(pool, k) >= SumSeq(pool)
          /\ 2 * PrefixSum(pool, k - 1) < SumSeq(pool)

\* C1 as stated: for every non-empty pool of non-negative read lengths, the
\* reported read_N50 is the element of the descending pool at which the running
\* sum first reaches total/2, the running sum before it being strictly below
\* total/2.
C1_AsStated ==
    (Emitted /\ NonNegative(read_lengths))
        => HalfCrossing(read_lengths, Val(result).read_N50)

\* C1, amended: the half-crossing property holds of read_N50 for every non-empty
\* pool of non-negative read lengths whose total is positive; for a pool of
\* zero-length reads only (total 0) read_N50 is 0.
C1_N50 ==
    (Emitted /\ NonNegative(read_lengths))
        => IF SumSeq(read_lengths) > 0
           THEN HalfCrossing(read_lengths, Val(result).read_N50)
           ELSE Val(result).read_N50 = 0

\* a record whose read_N50 is not the longest read: the walk went past the
\* first element
C1_Witness ==
    /\ Emitted /\ NonNegative(read_lengths) /\ SumSeq(read_lengths) > 0
    /\ Len(read_lengths) >= 3
    /\ Val(result).read_N50 # read_lengths[1]

\* the coverage and the six bucket values of a record are all 0.0
AllCoverageZero(r) ==
    /\ r.coverage = 0 /\ r.kb100 = 0 /\ r.kb200 = 0 /\ r.kb300 = 0
    /\ r.kb400 = 0 /\ r.kb500 = 0 /\ r.Mb1 = 0

\* C3 as stated: no emitted record built from a non-empty pool of non-negative
\* lengths has read_N50 = 0 with all coverage fields zero (that combination
\* needs an empty pool, for which no record is emitted).
C3_AsStated ==
    (Emitted /\ NonNegative(read_lengths))
        => /\ Len(read_lengths) > 0
           /\ ~(Val(result).read_N50 = 0 /\ AllCoverageZero(Val(result)))

\* C3, amended: no record is emitted for an empty pool, and in a record built
\* from non-negative lengths read_N50 = 0 occurs only when the total of the
\* pool is 0 (every read has length 0), in which case the coverage and the six
\* bucket values are 0.0 as well.
C3_ZeroN50 ==
    (Emitted /\ NonNegative(read_lengths))
        => /\ Len(read_lengths) > 0
           /\ (Val(result).read_N50 = 0
                 => SumSeq(read_lengths) = 0 /\ AllCoverageZero(Val(result)))

\* a record with read_N50 = 0, from a non-empty pool
C3_Witness ==
    /\ Emitted /\ NonNegative(read_lengths) /\ Len(read_lengths) > 0
    /\ Val(result).read_N50 = 0

\* the fields of a record C2 and C7 compare
Metrics(r) ==
    <<r.read_N50, r.Gb, r.coverage, r.kb100, r.kb200, r.kb300, r.kb400, r.kb500, r.Mb1, r.whales>>

\* two results agree: both None, or records with the same metrics and
\* flowcell_id
Agree(a, b) ==
    IF IsNone(a) \/ IsNone(b) THEN IsNone(a) /\ IsNone(b)
    ELSE Metrics(Val(a)) = Metrics(Val(b)) /\ Val(a).flowcell_id = Val(b).flowcell_id

\* C2: process_aggregated_files([f]) and process_single_file(f) agree for every
\* file f: both None, or records with the same read_N50, Gb, coverage, bucket
\* values, whales and flowcell_id.
C2_SingleListAgrees ==
    (Len(results) >= 2 /\ plan[2].files = plan[1].files
       /\ ~results[1].raised /\ ~results[2].raised)
        => Agree(results[1].value, results[2].value)

\* both calls gave a record, with a flowcell id, from a file with more than
\* one row reaching the filename column
C2_Witness ==
    /\ Len(results) >= 2 /\ plan[2].files = plan[1].files
    /\ ~results[1].raised /\ ~results[2].raised
    /\ ~IsNone(results[1].value) /\ ~IsNone(results[2].value)
    /\ Val(results[1].value).flowcell_id = "FCB"
    /\ Val(results[1].value).whales = 1
    /\ Len(fs[plan[1].files[1]]) >= 3

\* the function the test is calling, or has just called
CallAt == plan[Len(results) + 1]
InSingle == mpc = "test" /\ Len(results) < Len(plan) /\ CallAt.fn = "single"
InAggregated == mpc = "test" /\ Len(results) < Len(plan) /\ CallAt.fn = "aggregated"

\* the data rows of a file that the loop body does not skip: not a repeated
\* header, and long enough to reach the read-length column
ValidRows(lines) ==
    SelectSeq(Tail(lines), LAMBDA l : ~SkipsLine(l, LengthIndex(HeaderOf(lines))))

\* the flowcell id the first structurally valid row gives: None when there is
\* no filename column, no valid row, or that row does not reach the column
FirstValidRowId(lines) ==
    LET fidx == FilenameIndex(HeaderOf(lines))
        rows == ValidRows(lines)
    IN  IF IsNone(fidx) \/ Len(rows) = 0 THEN None
        ELSE IF Len(SplitWS(rows[1])) <= Val(fidx) THEN None
        ELSE Some(PodPrefix(SplitWS(rows[1]), Val(fidx)))

\* the flowcell id of the first valid row that reaches the filename column
FirstReachingRowId(lines) ==
    LET fidx == FilenameIndex(HeaderOf(lines))
        rows == IF IsNone(fidx) THEN <<>>
                ELSE SelectSeq(ValidRows(lines), LAMBDA l : Len(SplitWS(l)) > Val(fidx))
    IN  IF Len(rows) = 0 THEN None ELSE Some(PodPrefix(SplitWS(rows[1]), Val(fidx)))

UsableSet(list) == {Usable(list)[i] : i \in 1..Len(Usable(list))}
Values(options_) == {Val(o) : o \in {x \in options_ : ~IsNone(x)}}

\* C5: the flowcell id of a file comes from its first structurally valid data
\* row only: when that row does not reach the filename column the id is empty,
\* and no later row supplies it.
C5_FirstValidRowOnly ==
    /\ (Returned /\ InSingle /\ UsableSet(<<inFile>>) # {})
          => flowcell_id = FirstValidRowId(fs[inFile])
    /\ (Returned /\ InAggregated)
          => flowcell_ids = Values({FirstValidRowId(fs[p]) : p \in UsableSet(inFile_list)})

\* C6 as stated: the flowcell_id of an aggregate record is the sorted,
\* deduplicated, semicolon-joined set of the per-file ids, a file without a
\* usable filename column contributing the empty string to the set.
C6_AsStated ==
    (Emitted /\ InAggregated)
        => Val(result).flowcell_id =
              Join(SortedStrs({OrEmpty(FirstReachingRowId(fs[p])) : p \in UsableSet(inFile_list)}),
                   ";")

\* C6, amended: the flowcell_id of an aggregate record is the sorted,
\* deduplicated, semicolon-joined set of the ids extracted from the input
\* files; a file from which no id is extracted (no filename column, no row
\* reaching it, or a skipped file) contributes no member.
C6_FlowcellJoin ==
    (Emitted /\ InAggregated)
        => Val(result).flowcell_id =
              Join(SortedStrs(Values({FirstReachingRowId(fs[p]) : p \in UsableSet(inFile_list)})),
                   ";")

\* an aggregate record over two ids and over a file that yields none: the
\* empty prefix of "_x" is a member, the file without an id is not
C6_Witness ==
    /\ Emitted /\ InAggregated
    /\ \E p \in UsableSet(inFile_list) : IsNone(FirstReachingRowId(fs[p]))
    /\ \E p \in UsableSet(inFile_list) : FirstReachingRowId(fs[p]) = Some("FCA")
    /\ Val(result).flowcell_id = "FCA"

\* C7: in process_aggregated_files a file that fails to open or lacks the
\* read-length column is skipped and the later files are still processed: the
\* result equals that of aggregating the list without those files.
C7_BadFilesSkipped ==
    (Len(results) = 3 /\ ~results[2].raised /\ ~results[3].raised)
        => Agree(results[2].value, results[3].value)

\* a list that starts with an unusable file and goes on with a usable one,
\* both calls giving a record
C7_Witness ==
    /\ Len(results) = 3 /\ ~results[2].raised /\ ~results[3].raised
    /\ Len(plan[2].files) >= 2
    /\ plan[3].files # <<>>
    /\ plan[2].files[1] # plan[3].files[1]
    /\ ~IsNone(results[2].value) /\ ~IsNone(results[3].value)

\* the read lengths a file contributes: those of its valid rows whose length
\* field parses; none from a file that does not open or lacks the column
RECURSIVE ParsedLengths(_, _)
ParsedLengths(rows, lidx) ==
    IF Len(rows) = 0 THEN <<>>
    ELSE LET parts == SplitWS(Head(rows))
         IN  (IF LengthParses(parts, lidx) THEN <<RowLength(parts, lidx)>> ELSE <<>>)
             \o ParsedLengths(Tail(rows), lidx)

UsableLengths(path) ==
    IF path \notin DOMAIN fs \/ LengthIndex(HeaderOf(fs[path])) < 0 THEN <<>>
    ELSE ParsedLengths(ValidRows(fs[path]), LengthIndex(HeaderOf(fs[path])))

RECURSIVE PoolOf(_)
PoolOf(list) == IF Len(list) = 0 THEN <<>> ELSE UsableLengths(Head(list)) \o PoolOf(Tail(list))

\* the data rows written to the CSV
DataRows == SelectSeq(stdout, LAMBDA r : Len(r) = Len(CsvHeader) /\ r # CsvHeader)

\* the analyzer calls of main() that have returned and whose result main()
\* has dealt with
Crashed == Len(stderr) > 0 /\ stderr[Len(stderr)] = "Traceback (most recent call last)"
Completed ==
    IF mpc \in {"file_call", "agg_call"} \/ Crashed
    THEN SubSeq(invoked, 1, Len(invoked) - 1)
    ELSE invoked

NoSize == IsNone(options.genome_size)
NoDirsMatch == ~NoSize /\ DirectoryGiven /\ Len(matches) = 0
NoInputs == ~NoSize /\ ~DirectoryGiven /\ Len(args) = 0
NoAnalysis == invoked = <<>> /\ apc = "idle" /\ mpc \in {"start", "exited"}
ErrorExit == mpc = "exited" => (exit_status # Some(0) /\ Len(stderr) > 0)

\* C8 as stated: each of the three fatal conditions ends the process with a
\* non-zero exit status and a report on the error stream, before any analyzer
\* is invoked.
C8_AsStated == (NoSize \/ NoDirsMatch \/ NoInputs) => (NoAnalysis /\ ErrorExit)

\* C8, amended: no --size, and a --dir pattern matching no directories, end the
\* process with a non-zero exit status and a report on the error stream; neither
\* --dir nor file arguments ends it with the help text on standard output,
\* nothing on the error stream and exit status 0; in all three cases no
\* analyzer is invoked.
C8_FatalExits ==
    /\ (NoSize \/ NoDirsMatch) => (NoAnalysis /\ ErrorExit)
    /\ NoInputs =>
          /\ NoAnalysis
          /\ mpc = "exited" =>
                /\ exit_status = Some(0)
                /\ stderr = <<>>
                /\ Len(stdout) = 2 /\ StartsWith(stdout[2][1], "Usage")

\* the process has ended because the --dir pattern matched nothing
C8_Witness == mpc = "exited" /\ NoDirsMatch /\ exit_status = Some(1)

\* the files the directory-mode driver discovers: under each matched
\* directory, the files whose name fits one of the two patterns
Discovered ==
    UNION { {d \o "/" \o n : n \in {x \in tree[d] :
                StartsWith(x, "sequencing_summary") \/ EndsWith(x, "_summary.txt.gz")}} :
            d \in {matches[i] : i \in 1..Len(matches)} \cap DOMAIN tree }

\* C9: in directory mode the single-file analyzer is invoked exactly once per
\* discovered file and the CSV has at most one data row per discovered file; in
\* aggregate mode at most one data row is written.
C9_OncePerFile ==
    /\ (~NoSize /\ DirectoryGiven) =>
          /\ \A i, j \in 1..Len(invoked) : i # j => invoked[i] # invoked[j]
          /\ \A i \in 1..Len(invoked) :
                invoked[i].fn = "single" /\ invoked[i].files[1] \in Discovered
          /\ (mpc = "exited" /\ ~Crashed) =>
                {invoked[i].files[1] : i \in 1..Len(invoked)} = Discovered
          /\ Len(DataRows) <= Cardinality(Discovered)
    /\ (~NoSize /\ ~DirectoryGiven) => Len(DataRows) <= 1

\* C10: at most one file handle is open at a time, and whenever an analyzer is
\* not in the middle of a file (it has returned, it has raised, or it is
\* between two files of the list) every handle it opened is closed.
C10_HandlesClosed ==
    /\ Len(handles) <= 1
    /\ apc \in {"idle", "returned", "raised", "s_open", "a_next"} => handles = <<>>

====
